---- MODULE Spec2Model ----
(***************************************************************************)
(* State-machine model of the traffic simulation: CityModel (model.py),    *)
(* the agents Car, Traffic_Light, Destination, Obstacle, Road (agent.py)   *)
(* and the Flask handlers that drive the model (server_traffic.py).        *)
(*                                                                         *)
(* One /update request runs CityModel.step.  The step is followed through  *)
(* its phases with a program counter: updateModel (tick counter, spawn),   *)
(* agentStep (one agent.step() call of the loop over list(self.agents)),   *)
(* and stepEnd (retirement sweep, saturation check, currentStep).  While a *)
(* step is in progress no other handler runs.                              *)
(*                                                                         *)
(* Python values: a coordinate (x, y) is <<x, y>>; None is <<>> for a      *)
(* position, a destination or a BFS result, and NonePath for the cached    *)
(* path (which can also be the empty list <<>>).                           *)
(*                                                                         *)
(* The Mesa library is not part of the repository.  Its grid and its agent *)
(* registry are modelled by what the calls in the source say they do:      *)
(* place_agent, remove_agent and move_agent keep a cell's list and the     *)
(* agent's pos together, model.agents lists the agents in creation order,  *)
(* the tick counter model.steps changes only at line 268 of model.py, and  *)
(* the deletion at line 301 of model.py takes the car out of model.agents. *)
(* Whether the test at line 300 finds the car's unique_id among the keys   *)
(* of the library's registry is a matter of the library: id_in_agents is   *)
(* either outcome, the same for a whole run.  When the test fails the car  *)
(* stays in model.agents, flagged and with pos None.                       *)
(***************************************************************************)
EXTENDS Integers, Sequences, FiniteSets, TLC

VARIABLES
    cityFile,                   \* the map file and dictionary read by __init__
    grid,                       \* MultiGrid: coordinate -> list of agent ids
    agents,                     \* model.agents, in creation order
    attr,                       \* agent id -> the agent's fields
    steps,                      \* CityModel.steps
    spawn_interval,             \* CityModel.spawn_interval
    next_car_id,                \* CityModel.next_car_id
    cars_can_move,              \* CityModel.cars_can_move
    consecutive_failed_spawns,  \* CityModel.consecutive_failed_spawns
    running,                    \* CityModel.running
    corner_positions,           \* CityModel.corner_positions
    destination_positions,      \* CityModel.destination_positions
    currentStep,                \* server_traffic.currentStep
    g_spawn_interval,           \* server_traffic.spawn_interval
    id_in_agents,               \* the outcome of "car.unique_id in self._agents"
    pc,                         \* "idle", or "agents" inside CityModel.step
    todo,                       \* the rest of list(self.agents) still to act
    hist,                       \* observations of the current tick (history)
    search                      \* one call of Car.bfs_to_destination in progress

vars == <<cityFile, grid, agents, attr, steps, spawn_interval, next_car_id,
          cars_can_move, consecutive_failed_spawns, running, corner_positions,
          destination_positions, currentStep, g_spawn_interval, id_in_agents,
          pc, todo, hist, search>>

modelVars == <<grid, agents, attr, steps, spawn_interval, next_car_id,
               cars_can_move, consecutive_failed_spawns, running,
               corner_positions, destination_positions>>

(***************************************************************************)
(* Bounds of the model.                                                    *)
(***************************************************************************)
MaxSteps == 13          \* ticks of one model on a map with one destination
MaxStepsChoice == 5     \* ticks on a map where each spawn draws a destination
MaxInterval == 2        \* the spawn intervals requested are 0 .. MaxInterval, or 10
MaxCallStep == 1        \* /init and /setSpawnInterval arrive in the first ticks
                        \* (and /setSpawnInterval once the model has halted)

(***************************************************************************)
(* Program constants.                                                      *)
(***************************************************************************)
number_agents == 10
DefaultSpawnInterval == 10
StuckThreshold == 10
MaxPathFailures == 5
MaxFailedSpawns == 5
max_iterations == 1000

None == <<>>
NonePath == << <<>> >>

Min(a, b) == IF a < b THEN a ELSE b
Max(a, b) == IF a > b THEN a ELSE b
Abs(a) == IF a < 0 THEN 0 - a ELSE a

RECURSIVE SeqToSet(_)
SeqToSet(s) == IF s = <<>> THEN {} ELSE {Head(s)} \cup SeqToSet(Tail(s))

RemoveFromSeq(s, e) == SelectSeq(s, LAMBDA v : v /= e)

(***************************************************************************)
(* The city files.  Each row of a map is a sequence of one-character       *)
(* strings (the line without its newline); S and s are the periods the     *)
(* dictionary gives for the two traffic-light symbols.                     *)
(***************************************************************************)
E5 == <<" ", " ", " ", " ", " ">>

MapStraight ==   \* 5x5, one Right road across y = 2, destination at x = 4
    << E5, E5, <<">", ">", ">", ">", "D">>, E5, E5 >>

MapJam ==        \* a lane through two lights and a free parallel lane
    << <<">", "s", "S", "D", ">">>,
       <<"#", ">", ">", ">", "#">> >>

MapTurn ==       \* an Up road that turns into a two-lane Right road
    << <<">", ">", "s", "D">>,
       <<"^", ">", ">", "#">>,
       <<"^", " ", " ", " ">> >>

MapFork ==       \* a destination on the way to the destination at the end
    << <<">", "D", ">", "D">> >>

MapNoDest ==     \* roads but nowhere to go
    << <<">", ">", "<">> >>

MapMerge ==      \* two lanes that meet at a light before the destination
    << <<">", ">", "S", "D">>,
       <<">", ">", ">", "^">> >>

MapGate ==       \* two entries, each behind a light, on either side of D
    << <<"#", "#", "^", "#", "#">>,
       <<">", "S", "D", "S", "<">> >>

MapLightAhead == \* a Down street along buildings, a light before its end
    << <<"#", "v">>,
       <<"#", "S">>,
       <<"#", "D">> >>

MapNoRoad ==     \* buildings only
    << <<"#", "#">> >>

CityFiles ==
    { [lines |-> MapStraight, S |-> 2, s |-> 3],
      [lines |-> MapJam,      S |-> 13, s |-> 4],
      [lines |-> MapTurn,     S |-> 2, s |-> 3],
      [lines |-> MapFork,     S |-> 2, s |-> 3],
      [lines |-> MapNoDest,   S |-> 2, s |-> 3],
      [lines |-> MapMerge,    S |-> 12, s |-> 3],
      [lines |-> MapGate,     S |-> 13, s |-> 3],
      [lines |-> MapGate,     S |-> 2, s |-> 3],
      [lines |-> MapLightAhead, S |-> 2, s |-> 3],
      [lines |-> MapNoRoad,   S |-> 2, s |-> 3] }

RoadSymbols == {"v", "^", ">", "<"}

dataDictionary(f, col) ==
    CASE col = ">" -> "Right"
      [] col = "<" -> "Left"
      [] col = "^" -> "Up"
      [] col = "v" -> "Down"
      [] col = "S" -> f.S
      [] col = "s" -> f.s
      [] OTHER -> col

\* lines[r][c] with Python's 0-based indices
Sym(f, r, c) == f.lines[r + 1][c + 1]

FileHeight(f) == Len(f.lines)
FileWidth(f) == Len(f.lines[1])

width == FileWidth(cityFile)
height == FileHeight(cityFile)

Coords(f) == (0 .. FileWidth(f) - 1) \X (0 .. FileHeight(f) - 1)

InBounds(p) == /\ 0 <= p[1] /\ p[1] < width
               /\ 0 <= p[2] /\ p[2] < height

(***************************************************************************)
(* CityModel._get_road_direction_for_traffic_light                         *)
(***************************************************************************)
get_road_direction_for_traffic_light(f, r, c) ==
    LET h == FileHeight(f)
        w == FileWidth(f)
        left   == c > 0 /\ Sym(f, r, c - 1) \in RoadSymbols
        right  == c < w - 1 /\ Sym(f, r, c + 1) \in RoadSymbols
        top    == r > 0 /\ Sym(f, r - 1, c) \in RoadSymbols
        bottom == r < h - 1 /\ Sym(f, r + 1, c) \in RoadSymbols
        horiz(d) == d \in {"Right", "Left"}
        vert(d)  == d \in {"Down", "Up"}
    IN  IF left /\ horiz(dataDictionary(f, Sym(f, r, c - 1)))
          THEN dataDictionary(f, Sym(f, r, c - 1))
        ELSE IF right /\ horiz(dataDictionary(f, Sym(f, r, c + 1)))
          THEN dataDictionary(f, Sym(f, r, c + 1))
        ELSE IF top /\ vert(dataDictionary(f, Sym(f, r - 1, c)))
          THEN dataDictionary(f, Sym(f, r - 1, c))
        ELSE IF bottom /\ vert(dataDictionary(f, Sym(f, r + 1, c)))
          THEN dataDictionary(f, Sym(f, r + 1, c))
        ELSE "Right"

(***************************************************************************)
(* CityModel.__init__: the agents created for the character at row r,      *)
(* column c, in creation order, as <<id, fields>> pairs.                   *)
(***************************************************************************)
NewRoad(pos, dir) == [kind |-> "Road", pos |-> pos, direction |-> dir]
NewLight(pos, st, t) ==
    [kind |-> "Traffic_Light", pos |-> pos, state |-> st, timeToChange |-> t]
NewObstacle(pos) == [kind |-> "Obstacle", pos |-> pos]
NewDestination(pos) == [kind |-> "Destination", pos |-> pos]

CellAgents(f, r, c) ==
    LET col == Sym(f, r, c)
        k   == r * FileWidth(f) + c
        pos == <<c, FileHeight(f) - r - 1>>
        dir == get_road_direction_for_traffic_light(f, r, c)
    IN  IF col \in RoadSymbols
          THEN << <<<<"r", k>>, NewRoad(pos, dataDictionary(f, col))>> >>
        ELSE IF col \in {"S", "s"}
          THEN << <<<<"r", k>>, NewRoad(pos, dir)>>,
                  <<<<"tl", k>>,
                    NewLight(pos, col /= "S", dataDictionary(f, col))>> >>
        ELSE IF col = "#"
          THEN << <<<<"ob", k>>, NewObstacle(pos)>> >>
        ELSE IF col = "D"
          THEN << <<<<"r", k>>, NewRoad(pos, dir)>>,
                  <<<<"d", k>>, NewDestination(pos)>> >>
        ELSE << >>

RECURSIVE MapAgents(_, _)
MapAgents(f, k) ==   \* the agents of cells k, k+1, ... in reading order
    IF k >= FileWidth(f) * FileHeight(f) THEN << >>
    ELSE CellAgents(f, k \div FileWidth(f), k % FileWidth(f))
            \o MapAgents(f, k + 1)

agent_ids(created) == [i \in 1 .. Len(created) |-> created[i][1]]

agent_fields(created) ==
    [id \in {created[i][1] : i \in 1 .. Len(created)} |->
        created[CHOOSE i \in 1 .. Len(created) : created[i][1] = id][2]]

InitAgents(f) == agent_ids(MapAgents(f, 0))

InitAttr(f) == agent_fields(MapAgents(f, 0))

InitGrid(f) ==
    [p \in Coords(f) |->
        agent_ids(CellAgents(f, FileHeight(f) - p[2] - 1, p[1]))]

(***************************************************************************)
(* MultiGrid.coord_iter visits the cells column by column: x outermost.    *)
(***************************************************************************)
coord_iter(f) ==
    [i \in 1 .. FileWidth(f) * FileHeight(f) |->
        <<(i - 1) \div FileHeight(f), (i - 1) % FileHeight(f)>>]

HasKind(g, a, p, kind) == \E i \in 1 .. Len(g[p]) : a[g[p][i]].kind = kind

(***************************************************************************)
(* CityModel._find_corner_positions: for each corner the first cell, in    *)
(* coord_iter order, among the road cells nearest to it (Manhattan).       *)
(***************************************************************************)
corner_targets(f) ==
    << <<0, FileHeight(f) - 1>>, <<FileWidth(f) - 1, FileHeight(f) - 1>>,
       <<0, 0>>, <<FileWidth(f) - 1, 0>> >>

nearest_road(ci, roads, t) ==
    CHOOSE i \in roads :
        \A j \in roads :
            \/ Abs(ci[i][1] - t[1]) + Abs(ci[i][2] - t[2])
                 < Abs(ci[j][1] - t[1]) + Abs(ci[j][2] - t[2])
            \/ /\ Abs(ci[i][1] - t[1]) + Abs(ci[i][2] - t[2])
                    = Abs(ci[j][1] - t[1]) + Abs(ci[j][2] - t[2])
               /\ i <= j

corners_of(ci, roads, targets) ==
    IF roads = {} THEN << >>
    ELSE [n \in 1 .. 4 |-> ci[nearest_road(ci, roads, targets[n])]]

\* variant: the nearest cell of any kind
find_corner_positions_any(f, g, a) ==
    corners_of(coord_iter(f), 1 .. FileWidth(f) * FileHeight(f),
               corner_targets(f))

find_corner_positions(f, g, a) ==
    corners_of(coord_iter(f),
               {i \in 1 .. FileWidth(f) * FileHeight(f) :
                    HasKind(g, a, coord_iter(f)[i], "Road")},
               corner_targets(f))

find_destination_positions(f, g, a) ==
    SelectSeq(coord_iter(f), LAMBDA p : HasKind(g, a, p, "Destination"))

(***************************************************************************)
(* Queries of a car on the grid (agent.py).  self is the car's id.         *)
(***************************************************************************)
NoDir == "None"

IsCar(id) == attr[id].kind = "Car"

get_road_direction(position) ==
    LET roads == SelectSeq(grid[position], LAMBDA id : attr[id].kind = "Road")
    IN  IF roads = << >> THEN NoDir ELSE attr[roads[1]].direction

\* variant: a car that sees no traffic light
get_traffic_light_state_unseen(position) == << >>

\* << >> for None, <<state>> for the state of the first light of the cell
get_traffic_light_state(position) ==
    LET tls == SelectSeq(grid[position],
                         LAMBDA id : attr[id].kind = "Traffic_Light")
    IN  IF tls = << >> THEN << >> ELSE <<attr[tls[1]].state>>

has_obstacle(position) ==
    IF ~InBounds(position) THEN TRUE
    ELSE \E i \in 1 .. Len(grid[position]) :
            attr[grid[position][i]].kind = "Obstacle"

\* variant: a car that sees no other car
has_car_blind(self, position) == FALSE

has_car(self, position) ==
    IF ~InBounds(position) THEN FALSE
    ELSE \E i \in 1 .. Len(grid[position]) :
            /\ IsCar(grid[position][i])
            /\ grid[position][i] /= self

\* variant: no direction counts as against the traffic
opposites_none(d) == NoDir

opposites(d) ==
    CASE d = "Up" -> "Down"
      [] d = "Down" -> "Up"
      [] d = "Left" -> "Right"
      [] d = "Right" -> "Left"
      [] OTHER -> NoDir

move_direction(dx, dy) ==
    IF dx = 1 THEN "Right"
    ELSE IF dx = -1 THEN "Left"
    ELSE IF dy = 1 THEN "Up"
    ELSE IF dy = -1 THEN "Down"
    ELSE IF dx /= 0 /\ dy /= 0 THEN "Diagonal"
    ELSE NoDir

\* << >> when the pair is not in the table
turn_lane_checks(from_dir, to_dir) ==
    CASE from_dir = "Right" /\ to_dir = "Up"    -> <<0, -1>>
      [] from_dir = "Right" /\ to_dir = "Down"  -> <<0, 1>>
      [] from_dir = "Left"  /\ to_dir = "Up"    -> <<0, -1>>
      [] from_dir = "Left"  /\ to_dir = "Down"  -> <<0, 1>>
      [] from_dir = "Up"    /\ to_dir = "Right" -> <<-1, 0>>
      [] from_dir = "Up"    /\ to_dir = "Left"  -> <<1, 0>>
      [] from_dir = "Down"  /\ to_dir = "Right" -> <<-1, 0>>
      [] from_dir = "Down"  /\ to_dir = "Left"  -> <<1, 0>>
      [] OTHER -> << >>

\* variant: every lane is the correct lane
is_in_any_lane_for_turn(from_pos, from_dir, to_dir) == TRUE

is_in_correct_lane_for_turn(from_pos, from_dir, to_dir) ==
    LET check_offset == turn_lane_checks(from_dir, to_dir)
        parallel_pos == <<from_pos[1] + check_offset[1],
                          from_pos[2] + check_offset[2]>>
    IN  IF check_offset = << >> THEN TRUE
        ELSE IF ~InBounds(parallel_pos) THEN TRUE
        ELSE get_road_direction(parallel_pos) = from_dir

\* sd is self.destination at the time of the call
is_valid_move(self, sd, from_pos, to_pos, avoid_cars) ==
    IF ~InBounds(to_pos) THEN FALSE
    ELSE IF has_obstacle(to_pos) THEN FALSE
    ELSE IF HasKind(grid, attr, to_pos, "Destination") /\ sd /= to_pos
      THEN FALSE
    ELSE IF avoid_cars /\ has_car(self, to_pos) THEN FALSE
    ELSE LET to_road_dir == get_road_direction(to_pos)
             move_dir == move_direction(to_pos[1] - from_pos[1],
                                        to_pos[2] - from_pos[2])
             from_road_dir == get_road_direction(from_pos)
         IN  IF to_road_dir = NoDir THEN FALSE
             ELSE IF move_dir = NoDir THEN FALSE
             ELSE IF move_dir /= "Diagonal" /\ opposites(move_dir) = to_road_dir
               THEN FALSE
             ELSE IF /\ from_road_dir /= NoDir
                     /\ from_road_dir /= to_road_dir
                     /\ move_dir /= "Diagonal"
                     /\ ~is_in_correct_lane_for_turn(from_pos, from_road_dir,
                                                     to_road_dir)
               THEN FALSE
             ELSE TRUE

\* variant: Left, Right, Down, Up
straight_directions_reversed == << <<-1, 0>>, <<1, 0>>, <<0, -1>>, <<0, 1>> >>

\* line 201: Up, Down, Right, Left
straight_directions == << <<0, 1>>, <<0, -1>>, <<1, 0>>, <<-1, 0>> >>

\* variant: the four diagonals whatever the direction of the road
forward_diagonals_all(d) == << <<1, 1>>, <<1, -1>>, <<-1, 1>>, <<-1, -1>> >>

forward_diagonals(d) ==
    CASE d = "Right" -> << <<1, 1>>, <<1, -1>> >>
      [] d = "Left"  -> << <<-1, 1>>, <<-1, -1>> >>
      [] d = "Up"    -> << <<1, 1>>, <<-1, 1>> >>
      [] d = "Down"  -> << <<1, -1>>, <<-1, -1>> >>
      [] OTHER -> << >>

\* the positions of the (next_pos, road_dir) pairs, in the order of the list
get_neighbors(self, sd, position, avoid_cars) ==
    LET current_road_dir == get_road_direction(position)
        at(d) == <<position[1] + d[1], position[2] + d[2]>>
        straight == SelectSeq(straight_directions,
                      LAMBDA d : is_valid_move(self, sd, position, at(d),
                                               avoid_cars))
        diagOk(d) ==
            /\ InBounds(at(d))
            /\ get_road_direction(at(d)) = current_road_dir
            /\ ~(sd /= None /\ at(d) = sd)
            /\ is_valid_move(self, sd, position, at(d), avoid_cars)
            /\ \/ is_valid_move(self, sd, position,
                                <<position[1] + d[1], position[2]>>, FALSE)
               \/ is_valid_move(self, sd, position,
                                <<position[1], position[2] + d[2]>>, FALSE)
        diagonal == IF current_road_dir = NoDir THEN << >>
                    ELSE SelectSeq(forward_diagonals(current_road_dir), diagOk)
        moves == straight \o diagonal
    IN  [i \in 1 .. Len(moves) |-> at(moves[i])]

(***************************************************************************)
(* Car.bfs_to_destination.  The queue holds the paths (each ends at the    *)
(* cell it stands for); None is << >>.                                     *)
(***************************************************************************)
RECURSIVE bfs_loop(_, _, _, _, _, _, _)
bfs_loop(self, sd, goal, avoid_cars, queue, visited, iterations) ==
    IF queue = << >> \/ iterations >= max_iterations THEN None
    ELSE LET path == Head(queue)
             current_pos == path[Len(path)]
             neighbors == get_neighbors(self, sd, current_pos, avoid_cars)
             fresh == SelectSeq(neighbors, LAMBDA p : p \notin visited)
         IN  IF current_pos = goal THEN path
             ELSE bfs_loop(self, sd, goal, avoid_cars,
                           Tail(queue)
                             \o [i \in 1 .. Len(fresh) |-> Append(path, fresh[i])],
                           visited \cup SeqToSet(fresh),
                           iterations + 1)

bfs_to_destination(self, sd, start, goal, avoid_cars) ==
    IF start = goal THEN <<start>>
    ELSE bfs_loop(self, sd, goal, avoid_cars, << <<start>> >>, {start}, 0)

(***************************************************************************)
(* Car (agent.py).  A car's fields as created by Car.__init__; the         *)
(* attribute to_be_removed is read with getattr(..., False).               *)
(***************************************************************************)
NewCar ==
    [kind |-> "Car", pos |-> None, destination |-> None,
     facing_direction |-> NoDir, path_to_destination |-> NonePath,
     path_calculation_failures |-> 0, wait_time |-> 0,
     last_position |-> None, to_be_removed |-> FALSE]

\* "self.path_to_destination and len(self.path_to_destination) > 0"
HasPath(c) == c.path_to_destination /= NonePath /\ Len(c.path_to_destination) > 0

\* "path and len(path) > 1" of a BFS result
FoundPath(path) == path /= None /\ Len(path) > 1

destinations_on_grid == find_destination_positions(cityFile, grid, attr)

(***************************************************************************)
(* Car.assign_new_destination: the shuffle makes the first destination     *)
(* whose trial search succeeds any one of those that succeed.  The trial   *)
(* searches run while self.destination is still the old destination.       *)
(***************************************************************************)
assign_new_destination(self, c) ==
    LET destinations == destinations_on_grid
        others == SelectSeq(destinations, LAMBDA d : d /= c.destination)
        available_destinations == IF others = << >> THEN destinations ELSE others
        reachable == {d \in SeqToSet(available_destinations) :
                        FoundPath(bfs_to_destination(self, c.destination,
                                                     c.pos, d, FALSE))}
    IN  IF destinations = << >> THEN {c}
        ELSE IF reachable /= {}
          THEN {[c EXCEPT !.destination = d,
                          !.path_to_destination = NonePath,
                          !.path_calculation_failures = 0] : d \in reachable}
        ELSE {[c EXCEPT !.to_be_removed = TRUE]}

(***************************************************************************)
(* Car.calculate_path                                                      *)
(***************************************************************************)
\* variant: a car that goes on searching whatever the number of failures
gives_up_never(failures) == FALSE

\* line 339: if self.path_calculation_failures >= 5
gives_up(failures) == failures >= MaxPathFailures

\* line 331: self.path_to_destination = path[1:]
cached(path) == Tail(path)

calculate_path(self, c) ==
    IF c.destination = None THEN {c}
    ELSE IF c.path_to_destination = NonePath \/ Len(c.path_to_destination) = 0
      THEN LET path == bfs_to_destination(self, c.destination, c.pos,
                                          c.destination, FALSE)
               failed == [c EXCEPT !.path_to_destination = NonePath,
                                   !.path_calculation_failures = @ + 1]
           IN  IF FoundPath(path)
                 THEN {[c EXCEPT !.path_to_destination = cached(path),
                                 !.path_calculation_failures = 0]}
               ELSE IF gives_up(failed.path_calculation_failures)
                 THEN assign_new_destination(self, failed)
               ELSE {failed}
    ELSE {c}

(***************************************************************************)
(* Car.move, layer by layer.                                               *)
(***************************************************************************)
\* variant: a car counts as stuck after one tick of waiting
is_stuck_at_once(wait_time) == wait_time >= 1

\* line 358: the wait counter has reached the threshold
is_stuck(wait_time) == wait_time >= StuckThreshold

\* variant: the counter goes up whether the car has moved or not
next_wait_time_unreset(c) == c.wait_time + 1

\* lines 350-353: one more tick on the same cell, or a new count
next_wait_time(c) == IF c.last_position = c.pos THEN c.wait_time + 1 ELSE 0

\* lines 349-370: stuck detection and the reroute that avoids cars
stuck_detection(self, c) ==
    LET wt == next_wait_time(c)
        c1 == [c EXCEPT !.wait_time = wt, !.last_position = c.pos]
        alternative_path == bfs_to_destination(self, c1.destination, c1.pos,
                                               c1.destination, TRUE)
        c2 == IF c1.destination = None THEN c1
              ELSE IF FoundPath(alternative_path)
                THEN [c1 EXCEPT !.path_to_destination = Tail(alternative_path)]
              ELSE [c1 EXCEPT !.path_to_destination = NonePath]
    IN  IF is_stuck(wt) THEN [c2 EXCEPT !.wait_time = 0] ELSE c1

\* lines 372-375
update_facing(c) ==
    LET road_dir == get_road_direction(c.pos)
    IN  IF road_dir /= NoDir THEN [c EXCEPT !.facing_direction = road_dir] ELSE c

\* lines 377-389: random.choice over the destinations of the grid
assign_if_none(c) ==
    IF c.destination = None /\ destinations_on_grid /= << >>
      THEN {[c EXCEPT !.destination = d, !.path_to_destination = NonePath] :
               d \in SeqToSet(destinations_on_grid)}
    ELSE {c}

\* variant: a car that moves into its destination is not flagged
arrives_unflagged(c) == c

\* lines 428-430: a car that has moved into its destination is flagged
arrives(c) == [c EXCEPT !.to_be_removed = TRUE]

\* variant: a car that finds a car ahead forgets its path
yields_dropping_path(c) == [c EXCEPT !.path_to_destination = NonePath]

\* lines 405-407: a car that finds a car ahead returns as it is
yields(c) == c

\* variant: a car that makes for the last cell of its path
next_cell_last(path) == path[Len(path)]

\* line 402: next_pos = self.path_to_destination[0]
next_cell(path) == path[1]

\* variant: a move that leaves the cell entered at the head of the path
popped_never(path) == path

\* line 418: self.path_to_destination.pop(0)
popped(path) == Tail(path)

\* lines 400-434: follow the cached path
follow_path(self, c) ==
    IF HasPath(c)
      THEN LET next_pos == next_cell(c.path_to_destination)
               new_road_dir == get_road_direction(next_pos)
               c1 == [c EXCEPT !.pos = next_pos,
                               !.path_to_destination = popped(@),
                               !.facing_direction =
                                   IF new_road_dir /= NoDir THEN new_road_dir ELSE @]
           IN  IF has_car(self, next_pos) THEN yields(c)
               ELSE IF get_traffic_light_state(next_pos) = <<FALSE>> THEN c
               ELSE IF c1.pos = c1.destination THEN arrives(c1)
               ELSE c1
    ELSE c

\* the car as it stands when the step-execution layer starts, or the final
\* record (done) when move returned before it
before_follow(self) ==
    LET c == attr[self]
        c2 == update_facing(stuck_detection(self, c))
    IN  IF c.to_be_removed THEN {[car |-> c, done |-> TRUE]}
        ELSE UNION {
               IF c3.destination /= None /\ c3.pos = c3.destination
                 THEN {[car |-> [c3 EXCEPT !.to_be_removed = TRUE], done |-> TRUE]}
               ELSE {[car |-> c4, done |-> FALSE] : c4 \in calculate_path(self, c3)}
               : c3 \in assign_if_none(c2) }

\* Car.move: the possible values of the car's fields after the call
Car_move(self) ==
    {IF b.done THEN b.car ELSE follow_path(self, b.car) : b \in before_follow(self)}

(***************************************************************************)
(* MultiGrid.place_agent / remove_agent / move_agent on a grid g.          *)
(***************************************************************************)
place_agent(g, id, pos) == [g EXCEPT ![pos] = Append(@, id)]
remove_agent(g, id, pos) == [g EXCEPT ![pos] = RemoveFromSeq(@, id)]
\* variant: a move that empties the cell the agent leaves
move_agent_clearing(g, id, old, new) ==
    place_agent([g EXCEPT ![old] = << >>], id, new)

move_agent(g, id, old, new) == place_agent(remove_agent(g, id, old), id, new)

(***************************************************************************)
(* CityModel.spawn_cars_at_corners.  st carries grid, agents, attr,        *)
(* next_car_id and spawned through the loop; choice[i] is the index that   *)
(* random.choice draws for corner i.                                       *)
(***************************************************************************)
\* variant: a corner never counts as taken
corner_has_car_never(cell, a) == FALSE

\* lines 204-205: any(isinstance(agent, Car) for agent in cell_contents)
corner_has_car(cell, a) == \E j \in 1 .. Len(cell) : a[cell[j]].kind = "Car"

\* variant: a car created without a destination
spawn_destination_none(drawn) == None

\* lines 215-216: random.choice(self.destination_positions)
spawn_destination(drawn) == destination_positions[drawn]

RECURSIVE spawn_loop(_, _, _)
spawn_loop(i, st, choice) ==
    IF i > Len(corner_positions) THEN st
    ELSE LET corner_pos == corner_positions[i]
             cell == st.grid[corner_pos]
             has_a_car == corner_has_car(cell, st.attr)
             id == <<"car", st.next_car_id>>
             roads == SelectSeq(cell, LAMBDA a : st.attr[a].kind = "Road")
             car == [NewCar EXCEPT
                       !.destination = spawn_destination(choice[i]),
                       !.pos = corner_pos,
                       !.facing_direction =
                           IF roads = << >> THEN NoDir
                           ELSE st.attr[roads[1]].direction]
         IN  IF has_a_car THEN spawn_loop(i + 1, st, choice)
             ELSE spawn_loop(i + 1,
                    [grid |-> place_agent(st.grid, id, corner_pos),
                     agents |-> Append(st.agents, id),
                     attr |-> [x \in DOMAIN st.attr \cup {id} |->
                                 IF x = id THEN car ELSE st.attr[x]],
                     next_car_id |-> st.next_car_id + 1,
                     spawned |-> st.spawned + 1],
                    choice)

spawn_cars_at_corners(choice) ==
    LET st0 == [grid |-> grid, agents |-> agents, attr |-> attr,
                next_car_id |-> next_car_id, spawned |-> 0]
    IN  IF Len(corner_positions) < 4 THEN st0
        ELSE IF Len(destination_positions) = 0 THEN st0
        ELSE spawn_loop(1, st0, choice)

SpawnChoices ==
    IF Len(destination_positions) = 0 THEN {<<1, 1, 1, 1>>}
    ELSE [1 .. 4 -> 1 .. Len(destination_positions)]

(***************************************************************************)
(* Traffic_Light.step                                                      *)
(***************************************************************************)
\* variant: a light that flips on every tick
Traffic_Light_step_every_tick(tl, model_steps) == [tl EXCEPT !.state = ~@]

Traffic_Light_step(tl, model_steps) ==
    IF model_steps % tl.timeToChange = 0 THEN [tl EXCEPT !.state = ~@] ELSE tl

(***************************************************************************)
(* CityModel.set_spawn_interval                                            *)
(***************************************************************************)
\* variant: the interval stored as it was passed
set_spawn_interval_unclamped(interval) == interval

set_spawn_interval(interval) == Max(1, interval)

(***************************************************************************)
(* History of the run, kept for the properties only; no operation of the   *)
(* program reads it.                                                       *)
(*   call       the handler that ran last                                  *)
(*   status     the HTTP status of its response                            *)
(*   spawned    cars created by this tick's spawn attempt, -1 without one  *)
(*   failStreak consecutive spawn attempts that created no car (up to 5)   *)
(*   zeroTicks  consecutive ticks in which no car was created (up to 5)    *)
(*   refused    the last /update found running false and did not step      *)
(*   haltSteps  the tick counter when running became false, else -1        *)
(*   acted      the agents whose step() ran in this tick, in order         *)
(*   born       car id -> the tick and the cell of its creation            *)
(*   arrivals   <<cell of creation, ticks lived>> of the cars retired on   *)
(*              their destination                                          *)
(*   moved      the last move made: [id, from, to], or << >>               *)
(*   stuck      the turn that ran last was one of a car whose wait counter *)
(*              reached the threshold                                      *)
(***************************************************************************)
InitHist(call) ==
    [call |-> call, status |-> 200, spawned |-> -1, failStreak |-> 0,
     zeroTicks |-> 0, refused |-> FALSE, haltSteps |-> -1, acted |-> << >>,
     born |-> << >>, arrivals |-> {}, moved |-> << >>, stuck |-> FALSE]

IntervalInputs == (0 .. MaxInterval) \cup {DefaultSpawnInterval}

(***************************************************************************)
(* The local variables of one call of Car.bfs_to_destination (lines        *)
(* 267-271) and what the calls made so far returned; outside a search the  *)
(* record is NoSearch.                                                     *)
(***************************************************************************)
NoSearch ==
    [phase |-> "none", self |-> None, start |-> None, goal |-> None,
     avoid_cars |-> FALSE, queue |-> << >>, visited |-> {}, iterations |-> 0,
     results |-> << >>]

(***************************************************************************)
(* CityModel.__init__ followed by set_spawn_interval, as initModel runs    *)
(* them: the fields of a new model built from the city file f.             *)
(***************************************************************************)
model_fields(g, ags, a, corners, dests, interval) ==
    [grid |-> g,
     agents |-> ags,
     attr |-> a,
     steps |-> 0,
     spawn_interval |-> set_spawn_interval(interval),
     next_car_id |-> 0,
     cars_can_move |-> FALSE,
     consecutive_failed_spawns |-> 0,
     corner_positions |-> corners,
     destination_positions |-> dests,
     running |-> TRUE]

locate(f, g, ags, a, interval) ==
    model_fields(g, ags, a, find_corner_positions(f, g, a),
                 find_destination_positions(f, g, a), interval)

NewModel(f, interval) ==
    locate(f, InitGrid(f), InitAgents(f), InitAttr(f), interval)

\* cityModel = CityModel(...); cityModel.set_spawn_interval(...)
LoadModel(m) ==
    /\ grid' = m.grid
    /\ agents' = m.agents
    /\ attr' = m.attr
    /\ steps' = m.steps
    /\ spawn_interval' = m.spawn_interval
    /\ next_car_id' = m.next_car_id
    /\ cars_can_move' = m.cars_can_move
    /\ consecutive_failed_spawns' = m.consecutive_failed_spawns
    /\ corner_positions' = m.corner_positions
    /\ destination_positions' = m.destination_positions
    /\ running' = m.running

\* The server after its first POST /init.
Init ==
    \E f \in CityFiles, si \in IntervalInputs :
      \E m \in {NewModel(f, si)} :
        /\ cityFile = f
        /\ grid = m.grid
        /\ agents = m.agents
        /\ attr = m.attr
        /\ steps = m.steps
        /\ spawn_interval = m.spawn_interval
        /\ next_car_id = m.next_car_id
        /\ cars_can_move = m.cars_can_move
        /\ consecutive_failed_spawns = m.consecutive_failed_spawns
        /\ corner_positions = m.corner_positions
        /\ destination_positions = m.destination_positions
        /\ running = m.running
        /\ currentStep = 0
        /\ g_spawn_interval = si
        /\ id_in_agents \in BOOLEAN
        /\ pc = "idle"
        /\ todo = << >>
        /\ hist = InitHist("init_post")
        /\ search = NoSearch

(***************************************************************************)
(* server_traffic.initModel: POST sets the spawn interval and resets       *)
(* currentStep, GET keeps both; either builds a new CityModel.             *)
(***************************************************************************)
initModel(method, si) ==
    /\ pc = "idle"
    /\ currentStep <= MaxCallStep
    /\ g_spawn_interval' = IF method = "POST" THEN si ELSE g_spawn_interval
    /\ currentStep' = IF method = "POST" THEN 0 ELSE currentStep
    /\ LoadModel(NewModel(cityFile, IF method = "POST" THEN si
                                    ELSE g_spawn_interval))
    /\ hist' = InitHist(IF method = "POST" THEN "init_post" ELSE "init_get")
    /\ UNCHANGED <<cityFile, id_in_agents, pc, todo, search>>

(***************************************************************************)
(* server_traffic.setSpawnInterval                                         *)
(***************************************************************************)
setSpawnInterval(n) ==
    /\ pc = "idle"
    /\ steps <= MaxCallStep \/ ~running
    /\ g_spawn_interval' = n
    /\ spawn_interval' = set_spawn_interval(n)
    /\ hist' = [hist EXCEPT !.call = "set", !.status = 200]
    /\ UNCHANGED <<cityFile, grid, agents, attr, steps, next_car_id,
                   cars_can_move, consecutive_failed_spawns, running,
                   corner_positions, destination_positions, currentStep,
                   id_in_agents, pc, todo, search>>

(***************************************************************************)
(* server_traffic.updateModel, first part: when the model is running,      *)
(* CityModel.step up to the loop over list(self.agents) (lines 268-285).   *)
(***************************************************************************)
\* variant: the agents taken last to first
list_agents_reversed(ags) == [i \in 1 .. Len(ags) |-> ags[Len(ags) + 1 - i]]

\* line 285: list(self.agents), the agents in creation order
list_agents(ags) == ags

\* variant: the loop runs over the agents there were before the spawn
agents_of_loop_before_spawn(before, after) == before

\* lines 271-285: the list of the loop is taken after the spawn attempt
agents_of_loop(before, after) == after

\* variant: an attempt that creates a car leaves the streak as it is
next_failed_spawns_kept(spawned, failed) ==
    IF spawned > 0 THEN failed ELSE failed + 1

\* lines 276-282: the streak of attempts that created no car
next_failed_spawns(spawned, failed) ==
    IF spawned > 0 THEN 0 ELSE failed + 1

\* variant: any spawn attempt lets the cars move
allow_moves_unconditional(spawned, flag) == TRUE

\* lines 276-280: a spawn that created a car lets the cars move
allow_moves(spawned, flag) == IF spawned > 0 THEN TRUE ELSE flag

Horizon ==
    IF Len(destination_positions) > 1 THEN MaxStepsChoice ELSE MaxSteps

updateModel ==
    /\ pc = "idle"
    /\ steps < Horizon
    /\ IF running
         THEN \E choice \in SpawnChoices :
                LET due == (steps + 1) % spawn_interval = 0
                    st == spawn_cars_at_corners(choice)
                    n == IF due THEN st.spawned ELSE -1
                    new == {st.agents[i] : i \in 1 .. Len(st.agents)}
                              \ DOMAIN attr
                IN  /\ steps' = steps + 1
                    /\ grid' = IF due THEN st.grid ELSE grid
                    /\ agents' = IF due THEN st.agents ELSE agents
                    /\ attr' = IF due THEN st.attr ELSE attr
                    /\ next_car_id' = IF due THEN st.next_car_id ELSE next_car_id
                    /\ consecutive_failed_spawns' =
                          IF ~due THEN consecutive_failed_spawns
                          ELSE next_failed_spawns(st.spawned,
                                                  consecutive_failed_spawns)
                    /\ cars_can_move' =
                          IF due THEN allow_moves(st.spawned, cars_can_move)
                          ELSE cars_can_move
                    /\ pc' = "agents"
                    /\ todo' = list_agents(agents_of_loop(agents, agents'))
                    /\ hist' = [hist EXCEPT
                          !.call = "update",
                          !.status = 200,
                          !.refused = FALSE,
                          !.spawned = n,
                          !.failStreak = IF n = 0 THEN Min(@ + 1, MaxFailedSpawns)
                                         ELSE IF n > 0 THEN 0 ELSE @,
                          !.zeroTicks = IF n > 0 THEN 0
                                        ELSE Min(@ + 1, MaxFailedSpawns),
                          !.acted = << >>,
                          !.moved = << >>,
                          !.stuck = FALSE,
                          !.born = IF ~due THEN @
                                   ELSE [id \in DOMAIN @ \cup new |->
                                           IF id \in new
                                             THEN [tick |-> steps + 1,
                                                   pos |-> st.attr[id].pos]
                                           ELSE @[id]]]
                    /\ UNCHANGED <<spawn_interval, running, corner_positions,
                                   destination_positions, currentStep>>
         ELSE /\ hist' = [hist EXCEPT !.call = "update", !.status = 200,
                                       !.refused = TRUE]
              /\ UNCHANGED <<grid, agents, attr, steps, spawn_interval,
                             next_car_id, cars_can_move,
                             consecutive_failed_spawns, running,
                             corner_positions, destination_positions,
                             currentStep, pc, todo>>
    /\ UNCHANGED <<cityFile, g_spawn_interval, id_in_agents, search>>

(***************************************************************************)
(* One iteration of the loop of CityModel.step (lines 285-290): the next   *)
(* agent of the list acts.                                                 *)
(***************************************************************************)
agentStep ==
    /\ pc = "agents"
    /\ todo /= << >>
    /\ LET self == Head(todo)
           a == attr[self]
       IN  /\ IF a.kind = "Car"
                THEN IF cars_can_move
                       THEN \E c \in Car_move(self) :
                              /\ attr' = [attr EXCEPT ![self] = c]
                              /\ grid' = IF c.pos /= a.pos
                                           THEN move_agent(grid, self, a.pos, c.pos)
                                         ELSE grid
                              /\ hist' = [hist EXCEPT
                                    !.acted = Append(@, self),
                                    !.stuck = /\ ~a.to_be_removed
                                              /\ is_stuck(next_wait_time(a)),
                                    !.moved = IF c.pos /= a.pos
                                                THEN [id |-> self, from |-> a.pos,
                                                      to |-> c.pos]
                                              ELSE << >>]
                     ELSE /\ UNCHANGED <<attr, grid>>
                          /\ hist' = [hist EXCEPT !.moved = << >>,
                                                  !.stuck = FALSE]
              ELSE /\ attr' = IF a.kind = "Traffic_Light"
                                THEN [attr EXCEPT
                                        ![self] = Traffic_Light_step(a, steps)]
                              ELSE attr
                   /\ grid' = grid
                   /\ hist' = [hist EXCEPT !.acted = Append(@, self),
                                           !.moved = << >>,
                                           !.stuck = FALSE]
    /\ todo' = Tail(todo)
    /\ UNCHANGED <<cityFile, agents, steps, spawn_interval, next_car_id,
                   cars_can_move, consecutive_failed_spawns, running,
                   corner_positions, destination_positions, currentStep,
                   g_spawn_interval, id_in_agents, pc, search>>

(***************************************************************************)
(* The end of CityModel.step (lines 292-306): the flagged cars leave the   *)
(* grid and the agent set, and the saturation check; then updateModel      *)
(* counts the step (line 188).                                             *)
(***************************************************************************)
\* variant: the saturation test with > for >=
saturated_late(failed) == failed > MaxFailedSpawns

\* line 305: the saturation test
saturated(failed) == failed >= MaxFailedSpawns

to_remove == SelectSeq(agents, LAMBDA id : IsCar(id) /\ attr[id].to_be_removed)

\* variant: a sweep that leaves the flagged cars on the grid
sweep_grid_skipped(g, cars) == g

RECURSIVE sweep_grid(_, _)
sweep_grid(g, cars) ==
    IF cars = << >> THEN g
    ELSE sweep_grid(IF attr[Head(cars)].pos /= None
                      THEN remove_agent(g, Head(cars), attr[Head(cars)].pos)
                    ELSE g,
                    Tail(cars))

\* lines 299-301, when the registry holds the ids
sweep_agents(ags, cars) == SelectSeq(ags, LAMBDA id : id \notin SeqToSet(cars))

\* the agents' fields after the sweep: a car deleted from the registry is
\* gone; one that stays has lost its pos to MultiGrid.remove_agent
sweep_attr(a, gone) ==
    IF id_in_agents THEN [id \in DOMAIN a \ gone |-> a[id]]
    ELSE [id \in DOMAIN a |->
            IF id \in gone THEN [a[id] EXCEPT !.pos = None] ELSE a[id]]

stepEnd ==
    /\ pc = "agents"
    /\ todo = << >>
    /\ LET gone == SeqToSet(to_remove)
           arrived == {id \in gone : attr[id].pos = attr[id].destination}
           halt == saturated(consecutive_failed_spawns)
       IN  /\ grid' = sweep_grid(grid, to_remove)
           /\ agents' = IF id_in_agents THEN sweep_agents(agents, to_remove)
                        ELSE agents
           /\ attr' = sweep_attr(attr, gone)
           /\ running' = IF halt THEN FALSE ELSE running
           /\ hist' = [hist EXCEPT
                 !.haltSteps = IF halt /\ running THEN steps ELSE @,
                 !.moved = << >>,
                 !.stuck = FALSE,
                 !.born = [id \in DOMAIN @ \ gone |-> @[id]],
                 !.arrivals = @ \cup {<<hist.born[id].pos,
                                        steps - hist.born[id].tick + 1>> :
                                         id \in arrived}]
    /\ currentStep' = currentStep + 1
    /\ pc' = "idle"
    /\ UNCHANGED <<cityFile, steps, spawn_interval, next_car_id, cars_can_move,
                   consecutive_failed_spawns, corner_positions,
                   destination_positions, g_spawn_interval, id_in_agents, todo,
                   search>>

(***************************************************************************)
(* server_traffic.getMetrics: the response is built from three attributes  *)
(* of the model and the step counter; a missing attribute raises, and the  *)
(* handler answers 500.                                                    *)
(***************************************************************************)
\* the attributes CityModel assigns (model.py), with the registry of Mesa
model_attributes ==
    {"model_params", "traffic_lights", "width", "height", "grid", "num_agents",
     "steps", "spawn_interval", "next_car_id", "cars_can_move",
     "consecutive_failed_spawns", "corner_positions", "destination_positions",
     "running", "agents"}

metrics_attributes ==
    {"total_cars_spawned", "cars_reached_destination",
     "current_cars_in_simulation"}

getMetrics ==
    /\ pc = "idle"
    /\ hist' = [hist EXCEPT
                  !.call = "metrics",
                  !.status = IF metrics_attributes \subseteq model_attributes
                               THEN 200 ELSE 500]
    /\ UNCHANGED <<cityFile, grid, agents, attr, steps, spawn_interval,
                   next_car_id, cars_can_move, consecutive_failed_spawns,
                   running, corner_positions, destination_positions,
                   currentStep, g_spawn_interval, id_in_agents, pc, todo,
                   search>>

Next ==
    \/ updateModel
    \/ agentStep
    \/ stepEnd
    \/ \E n \in IntervalInputs : setSpawnInterval(n)
    \/ \E si \in IntervalInputs : initModel("POST", si)
    \/ initModel("GET", 0)
    \/ getMetrics

Spec == Init /\ [][Next]_vars

(***************************************************************************)
(* Car.bfs_to_destination, call by call.  A car stands on a road cell of   *)
(* a map, with or without a destination and with or without a second car   *)
(* on the roads (looked at by the search only when avoid_cars is set, line *)
(* 83), and calls bfs_to_destination(start, goal, avoid_cars)              *)
(* MaxCalls times; each call is followed through the iterations of its     *)
(* loop.  The model is not stepped meanwhile.                              *)
(***************************************************************************)
MaxCalls == 2

MapLanes ==      \* a two-lane Right road; the upper lane ends in a destination
    << <<">", ">", ">", "D">>,
       <<">", ">", ">", "#">> >>

MapJunction ==   \* a two-lane Up road that meets a Right road
    << <<">", ">", ">", "D">>,
       <<"#", "^", "^", "#">>,
       <<"#", "^", "^", "#">> >>

MapUTurn ==      \* a Right lane under a Left lane
    << <<"D", "<", "<">>,
       <<">", ">", ">">> >>

PathFiles ==
    { [lines |-> MapLanes,    S |-> 2, s |-> 3],
      [lines |-> MapJunction, S |-> 2, s |-> 3],
      [lines |-> MapUTurn,    S |-> 2, s |-> 3],
      [lines |-> MapTurn,     S |-> 2, s |-> 3] }

Self == <<"car", 0>>
Other == <<"car", 1>>

RoadCells(m) == {p \in DOMAIN m.grid : HasKind(m.grid, m.attr, p, "Road")}

\* the model m with one more car, created and placed as the spawn does it
with_car(m, id, pos, dest) ==
    LET roads == SelectSeq(m.grid[pos], LAMBDA a : m.attr[a].kind = "Road")
        car == [NewCar EXCEPT !.destination = dest,
                              !.pos = pos,
                              !.facing_direction = m.attr[roads[1]].direction]
    IN  [m EXCEPT !.grid = place_agent(m.grid, id, pos),
                  !.agents = Append(m.agents, id),
                  !.attr = [x \in DOMAIN m.attr \cup {id} |->
                              IF x = id THEN car ELSE m.attr[x]],
                  !.next_car_id = m.next_car_id + 1]

with_cars(m, start, sd, other) ==
    IF other = None THEN with_car(m, Self, start, sd)
    ELSE with_car(with_car(m, Self, start, sd), Other, other, None)

InitPath ==
    \E f \in PathFiles :
      \E m0 \in {NewModel(f, DefaultSpawnInterval)} :
        \E start \in RoadCells(m0), goal \in Coords(f), avoid \in BOOLEAN,
           sd \in SeqToSet(m0.destination_positions) \cup {None},
           other \in RoadCells(m0) \cup {None} :
          \E m \in {with_cars(m0, start, sd,
                               IF other = start \/ ~avoid THEN None
                               ELSE other)} :
            /\ cityFile = f
            /\ grid = m.grid
            /\ agents = m.agents
            /\ attr = m.attr
            /\ steps = m.steps
            /\ spawn_interval = m.spawn_interval
            /\ next_car_id = m.next_car_id
            /\ cars_can_move = m.cars_can_move
            /\ consecutive_failed_spawns = m.consecutive_failed_spawns
            /\ corner_positions = m.corner_positions
            /\ destination_positions = m.destination_positions
            /\ running = m.running
            /\ currentStep = 0
            /\ g_spawn_interval = DefaultSpawnInterval
            /\ id_in_agents = TRUE
            /\ pc = "search"
            /\ todo = << >>
            /\ hist = InitHist("init_post")
            /\ search = [NoSearch EXCEPT !.phase = "ready", !.self = Self,
                                         !.start = start, !.goal = goal,
                                         !.avoid_cars = avoid]

worldVars == <<cityFile, grid, agents, attr, steps, spawn_interval,
               next_car_id, cars_can_move, consecutive_failed_spawns, running,
               corner_positions, destination_positions, currentStep,
               g_spawn_interval, id_in_agents, pc, todo, hist>>

\* variant: the set of visited cells outlives the call
kept_visited(start) == search.visited \cup {start}

\* line 268: every call starts with a visited set of its own
new_visited(start) == {start}

\* variant: every neighbour is enqueued, visited or not
unvisited_or_not(neighbors, visited) == neighbors

\* lines 283-285: the neighbours not visited yet
unvisited(neighbors, visited) == SelectSeq(neighbors, LAMBDA q : q \notin visited)

\* lines 264-271: the call, up to the loop
bfsCall ==
    /\ search.phase = "ready"
    /\ Len(search.results) < MaxCalls
    /\ search' = IF search.start = search.goal
                   THEN [search EXCEPT !.results = Append(@, <<search.start>>)]
                 ELSE [search EXCEPT !.phase = "loop",
                                     !.queue = << <<search.start>> >>,
                                     !.visited = new_visited(search.start),
                                     !.iterations = 0]
    /\ UNCHANGED worldVars

\* lines 273-289: one iteration of the loop, or the return after it
bfsIter ==
    /\ search.phase = "loop"
    /\ IF search.queue = << >> \/ search.iterations >= max_iterations
         THEN search' = [search EXCEPT !.phase = "ready",
                                       !.results = Append(@, None)]
         ELSE LET path == Head(search.queue)
                  current_pos == path[Len(path)]
                  fresh == unvisited(get_neighbors(search.self,
                                                   attr[search.self].destination,
                                                   current_pos,
                                                   search.avoid_cars),
                                     search.visited)
              IN  search' =
                    IF current_pos = search.goal
                      THEN [search EXCEPT !.phase = "ready",
                                          !.iterations = @ + 1,
                                          !.queue = Tail(@),
                                          !.results = Append(@, path)]
                    ELSE [search EXCEPT
                            !.iterations = @ + 1,
                            !.queue = Tail(@) \o [i \in 1 .. Len(fresh) |->
                                                    Append(path, fresh[i])],
                            !.visited = @ \cup SeqToSet(fresh)]
    /\ UNCHANGED worldVars

NextPath == bfsCall \/ bfsIter

SpecPath == InitPath /\ [][NextPath]_vars

\* a call that has started runs on until it returns
SpecPathLive == SpecPath /\ WF_vars(NextPath)

(***************************************************************************)
(* Properties.                                                             *)
(***************************************************************************)
Cells == Coords(cityFile)

\* the cars that have a position
Cars == {id \in DOMAIN attr : IsCar(id) /\ attr[id].pos /= None}

CarsAt(p) == {i \in 1 .. Len(grid[p]) : IsCar(grid[p][i])}

Occurrences(s, e) == Cardinality({i \in 1 .. Len(s) : s[i] = e})

\* the displacement that follows a road direction
dirVec(d) ==
    CASE d = "Up" -> <<0, 1>>
      [] d = "Down" -> <<0, -1>>
      [] d = "Left" -> <<-1, 0>>
      [] d = "Right" -> <<1, 0>>
      [] OTHER -> <<0, 0>>

(***************************************************************************)
(* C1: after any sequence of spawns, car steps and sweeps, the contents of *)
(* every cell are exactly the agents whose pos is that cell: every agent   *)
(* a cell lists is live and has that cell as its pos, and every live agent *)
(* is listed exactly once, in the cell its pos names.  (A car that has     *)
(* been retired by a sweep is not live: it has no pos and no cell.)        *)
(***************************************************************************)
retired(id) == IsCar(id) /\ attr[id].to_be_removed /\ attr[id].pos = None

C1_GridConsistent ==
    /\ \A p \in Cells : \A i \in 1 .. Len(grid[p]) :
          /\ grid[p][i] \in DOMAIN attr
          /\ attr[grid[p][i]].pos = p
    /\ \A i \in 1 .. Len(agents) :
          /\ agents[i] \in DOMAIN attr
          /\ Occurrences(agents, agents[i]) = 1
          /\ \/ retired(agents[i])
             \/ /\ attr[agents[i]].pos \in Cells
                /\ Occurrences(grid[attr[agents[i]].pos], agents[i]) = 1

\* a car has arrived and been swept while another car, which has moved
\* away from the cell of its creation, is on the grid
C1_Witness ==
    /\ pc = "idle"
    /\ hist.arrivals /= {}
    /\ \E id \in Cars : hist.born[id].pos /= attr[id].pos

(***************************************************************************)
(* C2: no car stands on a cell that holds an Obstacle, and no car stands   *)
(* on a cell that holds a Destination other than the car's own             *)
(* destination, whether the car was spawned there or moved there.          *)
(***************************************************************************)
C2_NoCarOnForbiddenCell ==
    \A id \in Cars :
        /\ ~HasKind(grid, attr, attr[id].pos, "Obstacle")
        /\ HasKind(grid, attr, attr[id].pos, "Destination")
              => attr[id].pos = attr[id].destination

(***************************************************************************)
(* C3: the displacement of a move a car has just made is never the exact   *)
(* opposite of the road direction of the cell it entered.                  *)
(***************************************************************************)
C3_NoMoveAgainstRoad ==
    hist.moved /= << >> =>
        LET d == dirVec(get_road_direction(hist.moved.to))
        IN  \/ d = <<0, 0>>
            \/ <<hist.moved.to[1] - hist.moved.from[1],
                 hist.moved.to[2] - hist.moved.from[2]>> /= <<0 - d[1], 0 - d[2]>>

\* a car has just changed lane diagonally, which the stuck reroute causes
C3_Witness ==
    /\ hist.moved /= << >>
    /\ hist.moved.to[1] /= hist.moved.from[1]
    /\ hist.moved.to[2] /= hist.moved.from[2]
    /\ get_road_direction(hist.moved.to) /= NoDir

(***************************************************************************)
(* C4: no cell ever holds more than one car, flagged cars included.        *)
(***************************************************************************)
C4_OneCarPerCell == \A p \in Cells : Cardinality(CarsAt(p)) <= 1

\* two corners resolve to one cell, which holds the car of this tick's
\* spawn, and another car keeps waiting behind an occupied cell
C4_Witness ==
    /\ hist.spawned > 0
    /\ \E i, j \in 1 .. Len(corner_positions) :
          /\ i < j
          /\ corner_positions[i] = corner_positions[j]
          /\ Cardinality(CarsAt(corner_positions[i])) = 1
    /\ \E id \in Cars :
          /\ attr[id].wait_time >= 1
          /\ HasPath(attr[id])
          /\ has_car(id, attr[id].path_to_destination[1])

(***************************************************************************)
(* C5: the state of a traffic light after tick t is its initial state      *)
(* flipped once for every multiple of its period among 1 .. t, whatever    *)
(* the other lights and the cars do and whether or not cars may move.      *)
(***************************************************************************)
Lights == {id \in DOMAIN attr : attr[id].kind = "Traffic_Light"}

\* the ticks the light has lived through: the current one counts once the
\* light has acted in it
ticksSeen(id) ==
    IF pc = "idle" \/ \E i \in 1 .. Len(hist.acted) : hist.acted[i] = id
      THEN steps ELSE steps - 1

C5_LightIsFunctionOfTick ==
    \A id \in Lights :
        attr[id].state =
            IF (ticksSeen(id) \div attr[id].timeToChange) % 2 = 0
              THEN InitAttr(cityFile)[id].state
            ELSE ~InitAttr(cityFile)[id].state

\* before any car may move, a light has flipped twice and is back in its
\* initial state while a light of a longer period has not flipped yet
C5_Witness ==
    /\ pc = "idle"
    /\ ~cars_can_move
    /\ \E a, b \in Lights :
          /\ steps >= 2 * attr[a].timeToChange
          /\ steps < attr[b].timeToChange
          /\ attr[a].state = InitAttr(cityFile)[a].state
          /\ attr[b].state = InitAttr(cityFile)[b].state

(***************************************************************************)
(* A car's turn in the loop of the step, seen from the state before it:    *)
(* the car is the next agent to act and cars are allowed to move.          *)
(***************************************************************************)
CarActs(self) ==
    /\ pc = "agents"
    /\ todo /= << >>
    /\ Head(todo) = self
    /\ IsCar(self)
    /\ cars_can_move

\* the head of the car's cached path
HeadOf(self) == attr[self].path_to_destination[1]

\* the value the car's move gives its wait counter before anything else
waitCount(self) ==
    IF attr[self].last_position = attr[self].pos
      THEN attr[self].wait_time + 1 ELSE 0

\* the agent whose step() ran last in this tick
lastActed == hist.acted[Len(hist.acted)]

(***************************************************************************)
(* C6, as stated: whenever a car acts while the head of its cached path    *)
(* holds another car, the tick leaves the car where it is and leaves its   *)
(* cached path as it was.                                                  *)
(***************************************************************************)
C6_WaitKeepsPath ==
    [][\A self \in Cars :
          (CarActs(self) /\ HasPath(attr[self]) /\ has_car(self, HeadOf(self)))
            => /\ attr'[self].pos = attr[self].pos
               /\ attr'[self].path_to_destination
                     = attr[self].path_to_destination]_vars

(***************************************************************************)
(* C6, amended: whenever a car acts while the head of its cached path      *)
(* holds another car, and this is not the tick on which its wait counter   *)
(* reaches 10, the tick leaves the car where it is and leaves its cached   *)
(* path as it was.                                                         *)
(***************************************************************************)
C6_WaitKeepsPathBelowThreshold ==
    [][\A self \in Cars :
          (/\ CarActs(self)
           /\ HasPath(attr[self])
           /\ has_car(self, HeadOf(self))
           /\ waitCount(self) < 10)
            => /\ attr'[self].pos = attr[self].pos
               /\ attr'[self].path_to_destination
                     = attr[self].path_to_destination]_vars

\* a car has just waited, for the ninth tick in a row, behind a car that
\* holds the head of its path
C6_Witness ==
    /\ pc = "agents"
    /\ hist.acted /= << >>
    /\ lastActed \in Cars
    /\ HasPath(attr[lastActed])
    /\ has_car(lastActed, HeadOf(lastActed))
    /\ attr[lastActed].last_position = attr[lastActed].pos
    /\ attr[lastActed].wait_time = 9

(***************************************************************************)
(* C7, as stated: a car that acts while the head of its cached path        *)
(* carries a red light keeps its position in that tick; and when it acts   *)
(* in the tick in which that light has turned green, no other car being    *)
(* in the cell, it moves into the cell.                                    *)
(***************************************************************************)
redAt(p) == \E id \in Lights : attr[id].pos = p /\ ~attr[id].state

turnedGreenThisTick(p) ==
    \E id \in Lights :
        /\ attr[id].pos = p
        /\ attr[id].state
        /\ steps % attr[id].timeToChange = 0

C7_RedLightAhead ==
    [][\A self \in Cars :
          (CarActs(self) /\ HasPath(attr[self]))
            => /\ redAt(HeadOf(self)) => attr'[self].pos = attr[self].pos
               /\ (turnedGreenThisTick(HeadOf(self))
                     /\ ~has_car(self, HeadOf(self)))
                    => attr'[self].pos = HeadOf(self)]_vars

(***************************************************************************)
(* C7, amended: no car ever moves into a cell whose light is red; and a    *)
(* car that acts, on a tick other than the one on which its wait counter   *)
(* reaches 10, while the head of its cached path carries a light keeps its *)
(* position if the light is red, and moves into the cell if the light has  *)
(* turned green in this tick and no other car is in the cell.              *)
(***************************************************************************)
C7_RedLightAheadBelowThreshold ==
    [][\A self \in Cars :
          CarActs(self)
            => /\ attr'[self].pos /= attr[self].pos => ~redAt(attr'[self].pos)
               /\ (HasPath(attr[self]) /\ waitCount(self) < 10)
                    => /\ redAt(HeadOf(self)) => attr'[self].pos = attr[self].pos
                       /\ (turnedGreenThisTick(HeadOf(self))
                             /\ ~has_car(self, HeadOf(self)))
                            => attr'[self].pos = HeadOf(self)]_vars

\* a car that stood still at least since the tick before has just moved
\* into a cell whose light turned green in this tick
C7_Witness ==
    /\ hist.moved /= << >>
    /\ turnedGreenThisTick(hist.moved.to)
    /\ attr[hist.moved.id].wait_time >= 1

(***************************************************************************)
(* C8: on the 5x5 map with the straight Right road across y = 2 and the    *)
(* destination at x = 4, every car created at x = 0 arrives in its fourth  *)
(* tick and is retired then: a car retired on arrival has lived exactly 4  *)
(* ticks, and between ticks no such car is left that has lived 4 ticks.    *)
(***************************************************************************)
ticksLived(id) == steps - hist.born[id].tick + 1

C8_ArrivesInFourTicks ==
    cityFile.lines = MapStraight =>
        /\ \A a \in hist.arrivals : a[1] = <<0, 2>> => a[2] = 4
        /\ pc = "idle" =>
              \A id \in Cars : hist.born[id].pos = <<0, 2>> => ticksLived(id) < 4

C10_ReportedStepIsTick ==
    /\ \A i, j \in 1 .. Len(hist.acted) : hist.acted[i] = hist.acted[j] => i = j
    /\ (pc = "idle" /\ hist.call = "update") => currentStep = steps

(***************************************************************************)
(* C11: between ticks no car that is flagged for retirement is left in     *)
(* the agent set or on the grid, so that a retired car is never acted on   *)
(* or swept again.                                                         *)
(***************************************************************************)
C11_FlaggedCarsAreGone ==
    pc = "idle" =>
        /\ \A i \in 1 .. Len(agents) :
              ~(IsCar(agents[i]) /\ attr[agents[i]].to_be_removed)
        /\ \A p \in Cells : \A i \in 1 .. Len(grid[p]) :
              ~(IsCar(grid[p][i]) /\ attr[grid[p][i]].to_be_removed)

(***************************************************************************)
(* C12: a car whose path computation failed on 5 consecutive ticks is      *)
(* flagged for retirement only if no destination of the map is reachable   *)
(* from its position; otherwise it is given a destination it can reach and *)
(* stays live.  A destination d is reachable for a car when the search of  *)
(* a car bound for d finds a path to it.  Stated for the flagged cars: a   *)
(* car flagged away from its destination has no reachable destination.     *)
(***************************************************************************)
reachable_destinations(id) ==
    {d \in SeqToSet(destinations_on_grid) :
        FoundPath(bfs_to_destination(id, d, attr[id].pos, d, FALSE))}

C12_FlaggedOnlyIfNothingReachable ==
    \A id \in Cars :
        (attr[id].to_be_removed /\ attr[id].pos /= attr[id].destination)
            => reachable_destinations(id) = {}

(***************************************************************************)
(* C13: bfs_to_destination is idempotent and free of side effects: two     *)
(* calls with the same start, goal and avoid_cars flag on an unchanged     *)
(* grid return the same path (or both None), and no step of a call changes *)
(* the grid, the agent list or a field of any agent.                       *)
(***************************************************************************)
C13_BfsIdempotent ==
    /\ [](Len(search.results) >= 2 =>
            \A i, j \in 1 .. Len(search.results) :
                search.results[i] = search.results[j])
    /\ [][search' /= search => UNCHANGED <<grid, agents, attr>>]_vars

\* both calls returned a path, and one that went around the other car
C13_Witness ==
    /\ Len(search.results) = 2
    /\ FoundPath(search.results[1])
    /\ search.avoid_cars
    /\ \E i \in 1 .. Len(search.results[1]) :
          has_car(search.self,
                  bfs_to_destination(search.self, attr[search.self].destination,
                                     search.start, search.goal, FALSE)[i])

(***************************************************************************)
(* C14: in a model no car changes position in a tick before the first tick *)
(* whose spawn attempt created a car; cars_can_move is false until that    *)
(* tick, true from it on, and never becomes false again in that model      *)
(* (/init builds a new model).  The first car has been created exactly     *)
(* when next_car_id is above 0.                                            *)
(***************************************************************************)
C14_NoMoveBeforeFirstSpawn ==
    /\ [](cars_can_move <=> next_car_id > 0)
    /\ [][hist'.moved /= << >> => next_car_id > 0]_vars
    /\ [][(cars_can_move /\ hist'.call \notin {"init_post", "init_get"})
              => cars_can_move']_vars

\* a car moves in tick 2, the tick of the first spawn that created a car,
\* after a tick without a spawn attempt
C14_Witness ==
    /\ steps = 2
    /\ hist.moved /= << >>
    /\ \A id \in Cars : hist.born[id].tick = 2

(***************************************************************************)
(* C15: set_spawn_interval(n) stores max(1, n), so the stored interval is  *)
(* always at least 1; the call changes nothing else of the model (tick     *)
(* counter, agents, grid, failed-spawn streak, running); and every tick t  *)
(* that follows makes a spawn attempt exactly when t is a multiple of the  *)
(* stored interval, which is max(1, n) for the n passed last.              *)
(***************************************************************************)
C15_SetSpawnInterval ==
    /\ [](spawn_interval >= 1 /\ spawn_interval = Max(1, g_spawn_interval))
    /\ [][hist'.call = "set" =>
            UNCHANGED <<steps, grid, agents, attr, next_car_id, cars_can_move,
                        consecutive_failed_spawns, running>>]_vars
    /\ [][steps' = steps + 1 =>
            (hist'.spawned >= 0 <=> steps' % Max(1, g_spawn_interval) = 0)]_vars

\* after a tick that created cars the interval 0 has been set and is
\* stored as 1
C15_Witness ==
    /\ hist.call = "set"
    /\ g_spawn_interval = 0
    /\ spawn_interval = 1
    /\ steps = 1
    /\ Cars /= {}

(***************************************************************************)
(* C16: right after /init the server holds a model at tick 0 that is       *)
(* running, whose grid holds the static entities of the map, which         *)
(* contains the requested number of initial cars (NAgents, 10 by default), *)
(* and whose spawn interval is the one requested (at least 1).             *)
(***************************************************************************)
C16_InitialStateAsRequested ==
    hist.call \in {"init_post", "init_get"} =>
        /\ steps = 0
        /\ running
        /\ \A p \in Cells :
              SelectSeq(grid[p], LAMBDA id : ~IsCar(id)) = InitGrid(cityFile)[p]
        /\ spawn_interval = Max(1, g_spawn_interval)
        /\ Cardinality(Cars) = number_agents

(***************************************************************************)
(* C17: at any tick boundary the metrics request succeeds (and returns the *)
(* counts of cars created, arrived and live, and the ticks processed).     *)
(***************************************************************************)
C17_MetricsSucceed == hist.call = "metrics" => hist.status = 200

(***************************************************************************)
(* C18: a path returned by bfs_to_destination(start, goal) begins at       *)
(* start and ends at goal; each hop is a move get_neighbors accepts; no    *)
(* sequence of accepted moves from start to goal has fewer hops; and at    *)
(* each cell the hop taken is, among the accepted moves that lie on a      *)
(* shortest route to the goal, first in the order Up, Down, Right, Left,   *)
(* diagonal.                                                               *)
(***************************************************************************)
\* the moves the searching car may make from cell p
accepted(p) ==
    get_neighbors(search.self, attr[search.self].destination, p,
                  search.avoid_cars)

\* d[c] is the least number of accepted moves from c to the goal, -1 if none
\* is known yet; cells at k hops are added until none is left
RECURSIVE hops_to_goal(_, _)
hops_to_goal(d, k) ==
    LET next == {c \in Cells :
                    /\ d[c] = -1
                    /\ \E q \in SeqToSet(accepted(c)) : d[q] = k - 1}
    IN  IF next = {} THEN d
        ELSE hops_to_goal([c \in Cells |-> IF c \in next THEN k ELSE d[c]], k + 1)

hops == hops_to_goal([c \in Cells |-> IF c = search.goal THEN 0 ELSE -1], 1)

\* the place of a move in the order Up, Down, Right, Left, diagonal
rank(from, to) ==
    LET dx == to[1] - from[1]
        dy == to[2] - from[2]
    IN  CASE dx = 0 /\ dy = 1  -> 1
          [] dx = 0 /\ dy = -1 -> 2
          [] dx = 1 /\ dy = 0  -> 3
          [] dx = -1 /\ dy = 0 -> 4
          [] OTHER -> 5

first_shortest(path, d) ==
    /\ path[1] = search.start
    /\ path[Len(path)] = search.goal
    /\ d[search.start] = Len(path) - 1
    /\ \A i \in 1 .. Len(path) - 1 :
          /\ path[i + 1] \in SeqToSet(accepted(path[i]))
          /\ d[path[i + 1]] = d[path[i]] - 1
          /\ \A q \in SeqToSet(accepted(path[i])) :
                d[q] = d[path[i]] - 1
                    => rank(path[i], path[i + 1]) <= rank(path[i], q)

C18_PathIsFirstShortest ==
    (search.phase = "ready" /\ search.results /= << >>) =>
        \A d \in {hops} :
            \A k \in 1 .. Len(search.results) :
                search.results[k] /= None
                    => first_shortest(search.results[k], d)

\* a path of several hops was returned where another accepted move of the
\* start cell also lies on a shortest route
C18_Witness ==
    /\ search.results /= << >>
    /\ FoundPath(search.results[1])
    /\ Len(search.results[1]) > 2
    /\ \E q \in SeqToSet(accepted(search.start)) :
          /\ q /= search.results[1][2]
          /\ rank(search.start, q) < 5
          /\ rank(search.start, search.results[1][2]) < 5
          /\ hops[q] = hops[search.start] - 1

(***************************************************************************)
(* C19: an orthogonal move from a road cell into a cell whose road has     *)
(* another direction is accepted by is_valid_move only if the lane-check   *)
(* cell, the neighbour of the departure cell on the side away from the     *)
(* turn, is a road with the direction of the departure road; when there is *)
(* no such cell (the pair of directions has none, or it lies outside the   *)
(* grid) the move is rejected.                                             *)
(***************************************************************************)
Orthogonal == {<<0, 1>>, <<0, -1>>, <<1, 0>>, <<-1, 0>>}

\* the orthogonal moves between in-grid road cells of different directions
Turns ==
    {t \in Cells \X Cells :
        /\ <<t[2][1] - t[1][1], t[2][2] - t[1][2]>> \in Orthogonal
        /\ get_road_direction(t[1]) /= NoDir
        /\ get_road_direction(t[2]) /= NoDir
        /\ get_road_direction(t[1]) /= get_road_direction(t[2])}

perpendicular(t) ==
    get_road_direction(t[2]) /= opposites(get_road_direction(t[1]))

lane_check_cell(t) ==
    LET v == dirVec(get_road_direction(t[2]))
    IN  <<t[1][1] - v[1], t[1][2] - v[2]>>

has_parallel_lane(t) ==
    /\ InBounds(lane_check_cell(t))
    /\ get_road_direction(lane_check_cell(t)) = get_road_direction(t[1])

turn_accepted(t) ==
    is_valid_move(search.self, attr[search.self].destination, t[1], t[2],
                  search.avoid_cars)

C19_TurnNeedsParallelLane ==
    search.phase = "ready" =>
        \A t \in Turns :
            turn_accepted(t) => (perpendicular(t) /\ has_parallel_lane(t))

(***************************************************************************)
(* C19, amended: a move between roads of perpendicular directions is       *)
(* accepted only if the lane-check cell lies outside the grid or is a road *)
(* with the direction of the departure road; a lane-check cell inside the  *)
(* grid that is not such a road makes is_valid_move reject the move.       *)
(* Moves between roads of opposite directions are not lane-checked.        *)
(***************************************************************************)
C19_TurnNeedsParallelLaneInGrid ==
    search.phase = "ready" =>
        \A t \in Turns :
            (turn_accepted(t) /\ perpendicular(t))
                => (~InBounds(lane_check_cell(t)) \/ has_parallel_lane(t))

\* on one map a turn is accepted from the lane that has its parallel lane
\* and the same turn is rejected from the lane that has an obstacle there
C19_Witness ==
    /\ search.phase = "ready"
    /\ \E t, u \in Turns :
          /\ perpendicular(t) /\ turn_accepted(t) /\ has_parallel_lane(t)
          /\ perpendicular(u) /\ ~turn_accepted(u)
          /\ InBounds(lane_check_cell(u)) /\ ~has_parallel_lane(u)
          /\ get_road_direction(u[1]) = get_road_direction(t[1])
          /\ get_road_direction(u[2]) = get_road_direction(t[2])
          /\ ~has_obstacle(u[2])
          /\ ~HasKind(grid, attr, u[2], "Destination")

(***************************************************************************)
(* C20: a diagonal step of a path returned by the search (a) joins two     *)
(* road cells of the same direction and advances by one along that         *)
(* direction, (b) has at least one of its two orthogonal intermediate      *)
(* cells as a valid move from the departure cell, and (c) does not arrive  *)
(* on a destination cell; so the last step of a path onto a destination    *)
(* cell is orthogonal.                                                     *)
(***************************************************************************)
is_diagonal(p, q) == Abs(q[1] - p[1]) = 1 /\ Abs(q[2] - p[2]) = 1

diagonal_permitted(p, q) ==
    LET v == dirVec(get_road_direction(p))
        sd == attr[search.self].destination
    IN  /\ get_road_direction(p) /= NoDir
        /\ get_road_direction(q) = get_road_direction(p)
        /\ (q[1] - p[1]) * v[1] + (q[2] - p[2]) * v[2] = 1
        /\ \/ is_valid_move(search.self, sd, p, <<q[1], p[2]>>, FALSE)
           \/ is_valid_move(search.self, sd, p, <<p[1], q[2]>>, FALSE)
        /\ ~HasKind(grid, attr, q, "Destination")

C20_DiagonalStepsArePermitted ==
    \A k \in 1 .. Len(search.results) :
        LET path == search.results[k]
        IN  path /= None =>
              /\ \A i \in 1 .. Len(path) - 1 :
                    is_diagonal(path[i], path[i + 1])
                        => diagonal_permitted(path[i], path[i + 1])
              /\ (Len(path) > 1 /\ HasKind(grid, attr, path[Len(path)],
                                           "Destination"))
                    => ~is_diagonal(path[Len(path) - 1], path[Len(path)])

\* a path to the car's destination that changes lane by a diagonal step
\* from a cell diagonally adjacent to which lies no destination
C20_Witness ==
    /\ search.results /= << >>
    /\ FoundPath(search.results[1])
    /\ search.goal = attr[search.self].destination
    /\ \E i \in 1 .. Len(search.results[1]) - 1 :
          is_diagonal(search.results[1][i], search.results[1][i + 1])

(***************************************************************************)
(* C21: bfs_to_destination terminates: every call returns; it runs at most *)
(* max_iterations iterations of its loop and no cell is ever in the queue  *)
(* twice (each queued path ends in a visited cell of its own); and on      *)
(* these maps, whose cells are fewer than max_iterations, a call returns a *)
(* path exactly when the goal can be reached from the start by accepted    *)
(* moves.                                                                  *)
(***************************************************************************)
queued_cells == [i \in 1 .. Len(search.queue) |->
                    search.queue[i][Len(search.queue[i])]]

follows(self, found) ==
    \/ /\ attr'[self].pos = attr[self].pos
       /\ attr'[self].path_to_destination = Tail(found)
    \/ /\ attr'[self].pos = found[2]
       /\ attr'[self].path_to_destination = Tail(Tail(found))

rerouted(self, around, plain) ==
    IF FoundPath(around) THEN follows(self, around)
    ELSE IF FoundPath(plain) THEN follows(self, plain)
    ELSE attr'[self].pos = attr[self].pos
         /\ attr'[self].path_to_destination = NonePath

C22_WaitCounterAndReroute ==
    [][\A self \in Cars :
          (CarActs(self) /\ ~attr[self].to_be_removed) =>
              /\ attr'[self].last_position = attr[self].pos
              /\ attr'[self].wait_time =
                    IF waitCount(self) >= 10 THEN 0 ELSE waitCount(self)
              /\ waitCount(self) >= 10 =>
                    rerouted(self,
                             bfs_to_destination(self, attr[self].destination,
                                                attr[self].pos,
                                                attr[self].destination, TRUE),
                             bfs_to_destination(self, attr[self].destination,
                                                attr[self].pos,
                                                attr[self].destination, FALSE))
      ]_vars

\* a car has just acted on its tenth tick on the same cell: its counter is
\* back at 0 and it has left its lane by the path around the car ahead
C22_Witness ==
    /\ hist.stuck
    /\ hist.moved /= << >>
    /\ attr[hist.moved.id].wait_time = 0
    /\ \E v \in {dirVec(get_road_direction(hist.moved.from))} :
          /\ has_car(hist.moved.id, <<hist.moved.from[1] + v[1],
                                      hist.moved.from[2] + v[2]>>)
          /\ hist.moved.to /= <<hist.moved.from[1] + v[1],
                                hist.moved.from[2] + v[2]>>

(***************************************************************************)
(* C23: a tick makes a spawn attempt exactly when its number is a multiple *)
(* of the spawn interval, and cars are created by attempts only; the cars  *)
(* an attempt creates stand on pairwise different entry points that held   *)
(* no car, carry ids never used before in the model, and are bound for a   *)
(* destination cell of the map; no car is created when the model has fewer *)
(* than four entry points or no destination.                               *)
(***************************************************************************)
created == {id \in DOMAIN attr' : attr'[id].kind = "Car"} \ DOMAIN attr

C23_SpawnAttempt ==
    [][steps' = steps + 1 =>
          /\ hist'.spawned >= 0 <=> steps' % spawn_interval = 0
          /\ hist'.spawned < 0 => created = {}
          /\ hist'.spawned >= 0 => Cardinality(created) = hist'.spawned
          /\ (Len(corner_positions) < 4 \/ Len(destination_positions) = 0)
                => created = {}
          /\ \A id \in created :
                /\ id[2] >= next_car_id
                /\ \E i \in 1 .. Len(corner_positions) :
                      attr'[id].pos = corner_positions[i]
                /\ CarsAt(attr'[id].pos) = {}
                /\ HasKind(grid, attr, attr'[id].destination, "Destination")
                /\ \A other \in created :
                      attr'[other].pos = attr'[id].pos => other = id
      ]_vars

\* an attempt has created a car at one entry point while another entry
\* point, holding a car, got none
C23_Witness ==
    /\ pc = "agents"
    /\ hist.acted = << >>
    /\ hist.spawned = 1
    /\ \E id \in Cars :
          /\ hist.born[id].tick < steps
          /\ \E i \in 1 .. Len(corner_positions) :
                attr[id].pos = corner_positions[i]

(***************************************************************************)
(* C24: a tick runs its phases in order and nothing else runs in between:  *)
(* the tick counter goes up and the cars of a due spawn are created in the *)
(* same step; then the agents act, each once, in creation order (the       *)
(* static agents of the map, lights among them, before every car, and the  *)
(* cars by their number); the sweep of the flagged cars and the change of  *)
(* running come after the last agent has acted.  (/init, which replaces    *)
(* the model, is no part of a tick.)                                       *)
(***************************************************************************)
in_creation_order ==
    \A i, j \in 1 .. Len(agents) :
        (i < j /\ IsCar(agents[i])) =>
            (IsCar(agents[j]) /\ agents[i][2] < agents[j][2])

C24_PhasesInOrder ==
    /\ [](in_creation_order /\ (pc = "agents" => hist.acted \o todo = agents))
    /\ [][hist'.call \notin {"init_post", "init_get"} =>
          /\ steps' /= steps =>
                (pc = "idle" /\ pc' = "agents" /\ hist'.acted = << >>
                    /\ steps' = steps + 1 /\ todo' = agents')
          /\ created /= {} => steps' = steps + 1
          /\ hist'.acted /= hist.acted =>
                \/ steps' /= steps
                \/ pc = "agents" /\ todo /= << >>
                     /\ hist'.acted = Append(hist.acted, Head(todo))
          /\ (agents' /= agents \/ running' /= running \/ grid' /= grid)
                => \/ steps' /= steps
                   \/ pc = "agents" /\ todo /= << >> /\ agents' = agents
                        /\ running' = running
                   \/ pc = "agents" /\ todo = << >> /\ pc' = "idle"
                        /\ hist.acted = agents
      ]_vars

\* the last agent of a tick has acted: lights, a car that is flagged and a
\* car that is not, all in order, and the sweep is next
C24_Witness ==
    /\ pc = "agents"
    /\ todo = << >>
    /\ Lights /= {}
    /\ \E a, b \in Cars : attr[a].to_be_removed /\ ~attr[b].to_be_removed
    /\ hist.spawned > 0

(***************************************************************************)
(* C25, as stated: when two cars have the same free cell, not red, as the  *)
(* head of their cached paths, the car that acts first (created earlier)   *)
(* moves into it and the other keeps its position and its path in that     *)
(* tick; and a car's turn changes no field of any other agent.             *)
(***************************************************************************)
\* self is about to act and a car that acts later has the same free head
wins(self) ==
    /\ CarActs(self)
    /\ ~attr[self].to_be_removed
    /\ HasPath(attr[self])
    /\ ~has_car(self, HeadOf(self))
    /\ ~redAt(HeadOf(self))
    /\ \E b \in Cars \ {self} :
          /\ \E i \in 1 .. Len(todo) : todo[i] = b
          /\ ~attr[b].to_be_removed
          /\ HasPath(attr[b])
          /\ HeadOf(b) = HeadOf(self)

\* self is about to act and a car that acted earlier in this tick has just
\* moved into the head of its path
loses(self) ==
    /\ CarActs(self)
    /\ ~attr[self].to_be_removed
    /\ HasPath(attr[self])
    /\ \E a \in {c \in Cars \ {self} : attr[c].pos = HeadOf(self)} :
          /\ \E i \in 1 .. Len(hist.acted) : hist.acted[i] = a
          /\ attr[a].last_position /= attr[a].pos

C25_FirstComeFirstServed ==
    [][\A self \in Cars :
          /\ wins(self) => attr'[self].pos = HeadOf(self)
          /\ loses(self) =>
                /\ attr'[self].pos = attr[self].pos
                /\ attr'[self].path_to_destination
                      = attr[self].path_to_destination
          /\ CarActs(self) =>
                \A other \in DOMAIN attr \ {self} : attr'[other] = attr[other]
      ]_vars

(***************************************************************************)
(* C25, amended: the same, for the turns on which the car's wait counter   *)
(* does not reach 10; on the turn it reaches 10 the car is rerouted around *)
(* the other cars and may get another path and move elsewhere.             *)
(***************************************************************************)
C25_FirstComeFirstServedBelowThreshold ==
    [][\A self \in Cars :
          /\ (wins(self) /\ waitCount(self) < 10)
                => attr'[self].pos = HeadOf(self)
          /\ (loses(self) /\ waitCount(self) < 10) =>
                /\ attr'[self].pos = attr[self].pos
                /\ attr'[self].path_to_destination
                      = attr[self].path_to_destination
          /\ CarActs(self) =>
                \A other \in DOMAIN attr \ {self} : attr'[other] = attr[other]
      ]_vars

\* the second of two cars has just acted: the first has moved in this tick
\* into the head of the second's path, the second has stayed
C25_Witness ==
    /\ pc = "agents"
    /\ hist.acted /= << >>
    /\ lastActed \in Cars
    /\ ~hist.stuck
    /\ HasPath(attr[lastActed])
    /\ attr[lastActed].wait_time > 0
    /\ \E a \in {c \in Cars \ {lastActed} : attr[c].pos = HeadOf(lastActed)} :
          /\ \E i \in 1 .. Len(hist.acted) : hist.acted[i] = a
          /\ attr[a].last_position /= attr[a].pos
          /\ ~redAt(HeadOf(lastActed))

(***************************************************************************)
(* C26: a car that stands on its destination when it acts is flagged for   *)
(* retirement on that turn and neither moves nor gets another path; a car  *)
(* that moves into its destination is flagged on the turn of the move; and *)
(* a flagged car is never again on another cell: it keeps its position     *)
(* until the sweep takes it off the grid, and has none afterwards.         *)
(***************************************************************************)
C26_ArrivalRetires ==
    [][hist'.call \notin {"init_post", "init_get"} =>
          \A self \in Cars :
              /\ (/\ CarActs(self)
                  /\ ~attr[self].to_be_removed
                  /\ attr[self].pos = attr[self].destination)
                    => /\ attr'[self].to_be_removed
                       /\ attr'[self].pos = attr[self].pos
                       /\ attr'[self].path_to_destination
                             = attr[self].path_to_destination
                       /\ attr'[self].destination = attr[self].destination
                       /\ grid' = grid
              /\ (/\ CarActs(self)
                  /\ attr'[self].pos /= attr[self].pos
                  /\ attr'[self].pos = attr'[self].destination)
                    => attr'[self].to_be_removed
              /\ (attr[self].to_be_removed /\ self \in DOMAIN attr')
                    => /\ attr'[self].pos \in {attr[self].pos, None}
                       /\ attr'[self].to_be_removed
      ]_vars

\* a car has just moved into its destination and is flagged, after a car
\* spawned on that destination was flagged on its first turn and swept
C26_Witness ==
    /\ pc = "agents"
    /\ hist.moved /= << >>
    /\ hist.moved.to = attr[hist.moved.id].destination
    /\ attr[hist.moved.id].to_be_removed
    /\ <<hist.moved.to, 1>> \in hist.arrivals

(***************************************************************************)
(* C27: once running is false, no tick and no /setSpawnInterval makes it   *)
(* true again; running becomes false only at the end of a tick at which    *)
(* the streak of spawn attempts that created no car stands at 5; and an    *)
(* attempt that creates a car puts the streak back to zero.  (/init, which *)
(* builds a new model, is no part of the claim.)                           *)
(***************************************************************************)
C27_SaturationIsTerminal ==
    [][hist'.call \notin {"init_post", "init_get"} =>
          /\ ~running => ~running'
          /\ (running /\ ~running') =>
                /\ pc = "agents" /\ todo = << >>
                /\ hist.failStreak = MaxFailedSpawns
                /\ consecutive_failed_spawns = MaxFailedSpawns
          /\ (steps' = steps + 1 /\ hist'.spawned > 0) =>
                /\ consecutive_failed_spawns' = 0
                /\ hist'.failStreak = 0
          /\ consecutive_failed_spawns' = hist'.failStreak
      ]_vars

\* /setSpawnInterval has been called on a model that had created cars and
\* has halted since
C27_Witness ==
    /\ ~running
    /\ hist.call = "set"
    /\ next_car_id > 0
    /\ hist.failStreak = MaxFailedSpawns

(***************************************************************************)
(* C28: a tick creates, destroys and moves no Road, Obstacle, Destination  *)
(* or Traffic_Light, and changes no field of one except the state of a     *)
(* light: the static agents are the same before and after every step of a  *)
(* tick, each in the same place of the same cell and of the agent list,    *)
(* with the same direction (roads) and the same period (lights).           *)
(***************************************************************************)
Statics(a) == {id \in DOMAIN a : a[id].kind /= "Car"}

static_part(a, ids) == SelectSeq(ids, LAMBDA id : a[id].kind /= "Car")

C28_StaticsAreFixed ==
    [][hist'.call \notin {"init_post", "init_get"} =>
          /\ Statics(attr') = Statics(attr)
          /\ static_part(attr', agents') = static_part(attr, agents)
          /\ \A p \in Cells : static_part(attr', grid'[p]) = static_part(attr, grid[p])
          /\ \A id \in Statics(attr) :
                \/ attr'[id] = attr[id]
                \/ /\ attr[id].kind = "Traffic_Light"
                   /\ attr'[id] = [attr[id] EXCEPT !.state = ~@]
                   /\ pc = "agents" /\ todo /= << >> /\ Head(todo) = id
      ]_vars

\* a tick is over in which a car was created, a light has changed its
\* state, a car has moved and a car has been retired
C28_Witness ==
    /\ pc = "idle"
    /\ hist.call = "update"
    /\ hist.spawned > 0
    /\ \E id \in Lights :
          /\ steps % attr[id].timeToChange = 0
          /\ attr[id].state /= InitAttr(cityFile)[id].state
    /\ \E id \in Cars : attr[id].last_position /= attr[id].pos
    /\ hist.arrivals /= {}

(***************************************************************************)
(* C29: the road under a destination lets cars in: every destination cell  *)
(* of the map with a road cell next to it (above, below, left or right)    *)
(* can be entered from one of those cells by a move that is_valid_move     *)
(* accepts for a car bound for that destination.                           *)
(***************************************************************************)
adjacent_roads(d) ==
    {n \in Cells : /\ Abs(n[1] - d[1]) + Abs(n[2] - d[2]) = 1
                   /\ HasKind(grid, attr, n, "Road")}

C29_DestinationCanBeEntered ==
    \A d \in SeqToSet(destination_positions) :
        adjacent_roads(d) /= {} =>
            \E n \in adjacent_roads(d) : is_valid_move(None, d, n, d, FALSE)

(***************************************************************************)
(* C30: every car on the grid, from its creation to its retirement, has a  *)
(* destination, and that destination is a cell of the map that holds a     *)
(* Destination; so the layer of Car.move that gives a destination to a car *)
(* without one (lines 377-389) changes nothing on any turn of any car.     *)
(***************************************************************************)
C30_LiveCarsHaveADestination ==
    /\ [](\A id \in Cars :
             /\ attr[id].destination /= None
             /\ HasKind(grid, attr, attr[id].destination, "Destination")
             /\ \E i \in 1 .. Len(destination_positions) :
                   destination_positions[i] = attr[id].destination)
    /\ [][\A self \in Cars :
             CarActs(self) =>
                 \A c \in {update_facing(stuck_detection(self, attr[self]))} :
                     assign_if_none(c) = {c}
         ]_vars

\* a car that was created five ticks ago or more, not flagged, has just
\* acted once more
C30_Witness ==
    /\ pc = "agents"
    /\ hist.acted /= << >>
    /\ lastActed \in Cars
    /\ ~attr[lastActed].to_be_removed
    /\ hist.born[lastActed].tick + 5 <= steps
    /\ attr[lastActed].destination \in SeqToSet(destination_positions)

(***************************************************************************)
(* C31: in every reachable state every car on the grid stands on a cell of *)
(* the grid that holds a Road, and is listed in that cell.                 *)
(***************************************************************************)
C31_CarsStayOnRoads ==
    \A id \in Cars :
        /\ InBounds(attr[id].pos)
        /\ HasKind(grid, attr, attr[id].pos, "Road")
        /\ \E i \in 1 .. Len(grid[attr[id].pos]) : grid[attr[id].pos][i] = id

\* a car created on the road cell nearest to a corner that is no road has
\* just moved into another cell
C31_Witness ==
    /\ hist.moved /= << >>
    /\ hist.moved.id \in Cars
    /\ hist.moved.id \in DOMAIN hist.born
    /\ \A i \in 1 .. 4 : corner_targets(cityFile)[i] /= hist.born[hist.moved.id].pos
    /\ attr[hist.moved.id].pos = hist.moved.to
    /\ hist.moved.to /= hist.born[hist.moved.id].pos

(***************************************************************************)
(* C32: between ticks, the cached path of every car on the grid that has   *)
(* one ends at the car's destination, starts one king move away from the   *)
(* car, goes on by king moves and does not contain the cell the car stands *)
(* on; and no step changes the destination of a car that has a cached path *)
(* before and after it.                                                    *)
(***************************************************************************)
king_distance(p, q) == Max(Abs(p[1] - q[1]), Abs(p[2] - q[2]))

well_formed_path(c) ==
    LET path == c.path_to_destination
    IN  /\ path[Len(path)] = c.destination
        /\ king_distance(c.pos, path[1]) = 1
        /\ \A i \in 1 .. Len(path) - 1 : king_distance(path[i], path[i + 1]) = 1
        /\ \A i \in 1 .. Len(path) : path[i] /= c.pos

C32_CachedPathLeadsToDestination ==
    /\ [](pc = "idle" =>
             \A id \in Cars : HasPath(attr[id]) => well_formed_path(attr[id]))
    /\ [][hist'.call \notin {"init_post", "init_get"} =>
             \A id \in Cars :
                 (/\ id \in DOMAIN attr'
                  /\ HasPath(attr[id])
                  /\ HasPath(attr'[id]))
                    => attr'[id].destination = attr[id].destination
         ]_vars

\* a tick is over in which a car with two cells or more still to go has
\* moved along its path
C32_Witness ==
    /\ pc = "idle"
    /\ hist.call = "update"
    /\ \E id \in Cars :
          /\ HasPath(attr[id])
          /\ Len(attr[id].path_to_destination) >= 2
          /\ attr[id].last_position /= None
          /\ attr[id].last_position /= attr[id].pos

(***************************************************************************)
(* C33: between ticks every car on the grid has a wait counter from 0 to 9 *)
(* and a failure counter from 0 to 4: the turn on which the wait counter   *)
(* reaches 10 puts it back to 0, and the turn on which the failure counter *)
(* reaches 5 either puts it back to 0 or flags the car, which the sweep of *)
(* the same tick takes off the grid.                                       *)
(***************************************************************************)
C33_CountersAreBounded ==
    /\ [](pc = "idle" =>
             \A id \in Cars :
                 /\ attr[id].wait_time \in 0 .. StuckThreshold - 1
                 /\ attr[id].path_calculation_failures \in 0 .. MaxPathFailures - 1
                 /\ ~attr[id].to_be_removed)
    /\ [][\A self \in Cars :
             (CarActs(self) /\ ~attr[self].to_be_removed) =>
                 /\ waitCount(self) >= StuckThreshold => attr'[self].wait_time = 0
                 /\ attr'[self].wait_time < StuckThreshold
                 /\ \/ attr'[self].path_calculation_failures < MaxPathFailures
                    \/ attr'[self].to_be_removed
         ]_vars

\* a tick is over that leaves one car at nine ticks of waiting and another
\* with a failed search behind it
C33_Witness ==
    /\ pc = "idle"
    /\ hist.call = "update"
    /\ \E id \in Cars : attr[id].wait_time = StuckThreshold - 1
    /\ \E id \in Cars : attr[id].path_calculation_failures > 0

(***************************************************************************)
(* C34: in one tick no agent acts twice; a car's position changes on its   *)
(* own turn only, to a cell one king move away, and that cell is the head  *)
(* of the path the car holds when the step-execution layer of Car.move     *)
(* starts (after the reroute and calculate_path), which the move removes   *)
(* from the path.                                                          *)
(***************************************************************************)
C34_OneMovePerTick ==
    /\ [](\A i, j \in 1 .. Len(hist.acted) :
             hist.acted[i] = hist.acted[j] => i = j)
    /\ [][hist'.call \notin {"init_post", "init_get"} =>
             \A self \in Cars :
                 (/\ self \in DOMAIN attr'
                  /\ attr'[self].pos /= attr[self].pos
                  /\ attr'[self].pos /= None)
                    => /\ CarActs(self)
                       /\ king_distance(attr[self].pos, attr'[self].pos) = 1
                       /\ \E b \in before_follow(self) :
                             /\ ~b.done
                             /\ HasPath(b.car)
                             /\ attr'[self].pos = b.car.path_to_destination[1]
                             /\ attr'[self].path_to_destination
                                   = Tail(b.car.path_to_destination)
         ]_vars

\* a car whose wait counter had reached the threshold has just made a
\* diagonal move, the first of the path the reroute gave it
C34_Witness ==
    /\ pc = "agents"
    /\ hist.stuck
    /\ hist.moved /= << >>
    /\ hist.moved.id = lastActed
    /\ hist.moved.from[1] /= hist.moved.to[1]
    /\ hist.moved.from[2] /= hist.moved.to[2]
    /\ Occurrences(hist.acted, lastActed) = 1

(***************************************************************************)
(* C35: a car created by the spawn attempt of a tick acts in that tick:    *)
(* while the agents act it is among those that have acted or are still to  *)
(* act, cars being allowed to move, it has acted when the sweep starts,    *)
(* and every car created in an earlier tick has acted before it.           *)
(***************************************************************************)
born_now == {id \in DOMAIN hist.born : hist.born[id].tick = steps}

position_in(s, e) == CHOOSE i \in 1 .. Len(s) : s[i] = e

C35_NewCarsActAtOnce ==
    pc = "agents" =>
        \A id \in born_now :
            /\ cars_can_move
            /\ Occurrences(hist.acted \o todo, id) = 1
            /\ todo = << >> => Occurrences(hist.acted, id) = 1
            /\ Occurrences(hist.acted, id) = 1 =>
                  \A old \in DOMAIN hist.born \ born_now :
                      /\ Occurrences(hist.acted, old) = 1
                      /\ position_in(hist.acted, old) < position_in(hist.acted, id)

\* a car created in this tick has just moved off its entry cell, after a
\* car of an earlier tick has acted, in a model where a car was retired in
\* the tick that created it
C35_Witness ==
    /\ pc = "agents"
    /\ hist.moved /= << >>
    /\ hist.moved.id \in born_now
    /\ hist.moved.from = hist.born[hist.moved.id].pos
    /\ DOMAIN hist.born \ born_now /= {}
    /\ \E a \in hist.arrivals : a[2] = 1

====
